---- MODULE Spec2Model ----
(***************************************************************************)
(* Download counter service: the persisted tables (plugins, downloads,     *)
(* scrape_logs) of database.py, the throttle and retry predicates over     *)
(* them, the request handlers of app.py, and the sparkline and number      *)
(* formatting of svg_generator.py.                                         *)
(*                                                                         *)
(* Time is counted in whole hours since an arbitrary midnight.  A stored   *)
(* timestamp is the text datetime.isoformat() produces, kept here as its   *)
(* fixed-width digit string (day, hour); SQLite orders and compares the    *)
(* TEXT column byte by byte, and datetime.fromisoformat() parses it back.  *)
(***************************************************************************)
EXTENDS Integers, Sequences, FiniteSets, TLC

VARIABLES
    now,          \* the wall clock read by datetime.now(), in hours
    plugins,      \* table plugins: set of rows [id, created_at]
    downloads,    \* table downloads, in rowid order: rows [plugin_id, timestamp, count]
    scrape_logs,  \* table scrape_logs, in rowid order: rows [plugin_id, timestamp, success, error_message]
    req,          \* the POST /update requests in flight: position and locals of each handler
    recorded,     \* per plugin: the clock value at which its newest row was inserted with
                  \* the default timestamp (datetime.now()), or -1
    response,     \* the GET request answered last: its arguments and the response sent
    history,      \* generate_sparkline: the argument history
    width,        \* generate_sparkline: the argument width (0 when omitted)
    height,       \* generate_sparkline: the argument height (0 when omitted)
    sparkline,    \* generate_sparkline: its locals at the return and the value returned
    num,          \* format_number: the argument num
    formatted,    \* format_number: the string returned
    returned,     \* a query of database.py called on its own: its arguments and result
    conn          \* get_db: the connection of the database operation in progress

\* The variables of the calls of svg_generator's functions on their own.
calls == <<history, width, height, sparkline, num, formatted>>

\* The variables of the calls of database.py's functions on their own.
dbcalls == <<returned, conn>>

vars == <<now, plugins, downloads, scrape_logs, req, recorded, response, calls, dbcalls>>

----------------------------------------------------------------------------
(* Bounds of the model *)

MaxTicks == 4        \* the clock advances at most this many times (12 hours each)
MaxRetryTicks == 5   \* the same under SpecRetry
MaxSamples == 3      \* rows of downloads under SpecDb
MaxLogs == 4         \* rows of scrape_logs under SpecRetry
MaxStored == 2       \* rows of downloads under Spec, SpecStore and SpecRead
MaxStoreLogs == 1    \* rows of scrape_logs under SpecDb, SpecStore and SpecTx, of downloads under SpecQuery
MaxHistory == 3      \* records of the history handed to generate_sparkline
MaxSmallNum == 1400  \* format_number is called on every count up to this one
MaxTxTicks == 1      \* the clock advances at most this many times under SpecTx
MaxRows == 2         \* rows of downloads under SpecTx

AdvanceSteps == {12}            \* hours the clock advances by in one step
ExplicitLags == {12}            \* an explicit timestamp lies this many hours in the past
PluginIds == {"p1", "p2"}
Counts == {10}
ErrorMessages == {"timeout"}
Requests == {"r1", "r2"}
\* The counts format_number is called on beside the small ones.
LargeNums ==
    {9949, 9950, 9951, 99949, 99950, 999949, 999950, 999951, 999999,
     1000000, 1000001, 1049999, 1050000, 1050001, 1150000, 1250000, 1350000,
     1500000, 99950000, 2000000000}
\* The counts recorded under SpecRead, and the query strings of GET /sparkline: no
\* parameter, or days=<text>.
ReadCounts == {999, 1500}
DaysTexts ==
    {<<"0">>, <<"-", "5">>, <<"1">>, <<"2">>, <<"3", "6", "5">>, <<"3", "6", "6">>,
     <<"a", "b", "c">>, <<"1", ".", "5">>, <<>>}
QueryArgs == {<<>>} \cup {[days |-> text] : text \in DaysTexts}
WindowArgs == {<<>>, [days |-> <<"1">>]}   \* the query strings under SpecRead
RenderDays == 1..5              \* the calendar days the samples of a history fall on
RenderHours == {6, 18}          \* their hours of the day
RenderCounts == {10, 15, 30}
RenderSizes == {<<0, 0>>, <<120, 20>>}   \* width and height; 0: the argument is omitted

(* Program constants *)

THROTTLE_HOURS == 24            \* config.THROTTLE_HOURS (default)
RETRY_WAIT_HOURS == 24          \* the literal 24 of should_retry_scrape
RETRY_WINDOW == 10              \* LIMIT 10 of should_retry_scrape
GIVE_UP_FAILURES == 3           \* consecutive_failures < 3

----------------------------------------------------------------------------
(* datetime.isoformat() / datetime.fromisoformat() and SQLite TEXT order *)

None == <<>>

\* datetime(...).isoformat(): zero-padded fixed-width fields, most significant first.
isoformat(t) ==
    LET day == t \div 24
        hour == t % 24
    IN  <<day \div 10, day % 10, hour \div 10, hour % 10>>

\* datetime.fromisoformat(text): back to hours.
fromisoformat(s) == (s[1] * 10 + s[2]) * 24 + (s[3] * 10 + s[4])

\* SQLite's comparison of two TEXT values (BINARY collation): the first differing
\* position decides; a proper prefix sorts first.
TextLess(a, b) ==
    \/ \E i \in 1..Len(a) :
          /\ i <= Len(b)
          /\ a[i] < b[i]
          /\ \A j \in 1..(i - 1) : a[j] = b[j]
    \/ /\ Len(a) < Len(b)
       /\ \A j \in 1..Len(a) : a[j] = b[j]

TextLeq(a, b) == a = b \/ TextLess(a, b)

----------------------------------------------------------------------------
(* SQL helpers *)

\* SELECT ... WHERE plugin_id = ? (rows keep rowid order)
WherePlugin(table, plugin_id) ==
    SelectSeq(table, LAMBDA row : row.plugin_id = plugin_id)

\* The rank ORDER BY timestamp DESC gives row i: the rows of greater timestamp
\* come before it; among equal timestamps the greater rowid comes first.
RankDesc(rows, i) ==
    1 + Cardinality({j \in 1..Len(rows) :
                        \/ TextLess(rows[i].timestamp, rows[j].timestamp)
                        \/ rows[j].timestamp = rows[i].timestamp /\ j > i})

\* ORDER BY timestamp ASC in place of DESC.
OrderByTimestampAsc(rows) ==
    [k \in 1..Len(rows) |->
        rows[CHOOSE i \in 1..Len(rows) : RankDesc(rows, i) = Len(rows) + 1 - k]]

\* ORDER BY timestamp DESC
OrderByTimestampDesc(rows) ==
    [k \in 1..Len(rows) |-> rows[CHOOSE i \in 1..Len(rows) : RankDesc(rows, i) = k]]

\* LIMIT n
Limit(rows, n) == SubSeq(rows, 1, IF Len(rows) < n THEN Len(rows) ELSE n)

\* INSERT OR IGNORE INTO plugins (id, created_at): the primary key id keeps the
\* row that is already there.
InsertOrIgnorePlugin(table, plugin_id, created_at) ==
    IF \E row \in table : row.id = plugin_id
    THEN table
    ELSE table \cup {[id |-> plugin_id, created_at |-> created_at]}

----------------------------------------------------------------------------
(* database.py: queries *)

\* get_last_fetched reading the newest row by rowid (ORDER BY id DESC) instead.
get_last_fetched_by_rowid(plugin_id) ==
    LET result == WherePlugin(downloads, plugin_id)
    IN  IF result = <<>> THEN None ELSE result[Len(result)].timestamp

\* SELECT timestamp FROM downloads WHERE plugin_id = ? ORDER BY timestamp DESC LIMIT 1
get_last_fetched(plugin_id) ==
    LET result == Limit(OrderByTimestampDesc(WherePlugin(downloads, plugin_id)), 1)
    IN  IF result = <<>> THEN None ELSE result[1].timestamp

\* can_update comparing with > instead of >=.
can_update_strict(plugin_id) ==
    LET last_fetched == get_last_fetched(plugin_id)
    IN  IF last_fetched = None
        THEN TRUE
        ELSE now - fromisoformat(last_fetched) > THROTTLE_HOURS

can_update(plugin_id) ==
    LET last_fetched == get_last_fetched(plugin_id)
    IN  IF last_fetched = None
        THEN TRUE
        ELSE now - fromisoformat(last_fetched) >= THROTTLE_HOURS

\* get_latest_download_count reading the newest row by rowid instead.
get_latest_download_count_by_rowid(plugin_id) ==
    LET result == WherePlugin(downloads, plugin_id)
    IN  IF result = <<>> THEN None ELSE <<result[Len(result)].count>>

\* SELECT count FROM downloads WHERE plugin_id = ? ORDER BY timestamp DESC LIMIT 1.
\* The count comes in a sequence of its own, <<count>>; None is the empty one.
get_latest_download_count(plugin_id) ==
    LET result == Limit(OrderByTimestampDesc(WherePlugin(downloads, plugin_id)), 1)
    IN  IF result = <<>> THEN None ELSE <<result[1].count>>

\* The rank ORDER BY timestamp ASC gives row i; equal timestamps stay in rowid order.
RankAsc(rows, i) ==
    1 + Cardinality({j \in 1..Len(rows) :
                        \/ TextLess(rows[j].timestamp, rows[i].timestamp)
                        \/ rows[j].timestamp = rows[i].timestamp /\ j < i})

\* ORDER BY timestamp ASC
OrderByTimestamp(rows) ==
    [k \in 1..Len(rows) |-> rows[CHOOSE i \in 1..Len(rows) : RankAsc(rows, i) = k]]

\* cutoff = (datetime.now() - timedelta(days=days)).isoformat();
\* SELECT timestamp, count FROM downloads WHERE plugin_id = ? AND timestamp >= ?
\* ORDER BY timestamp ASC.  (A cutoff before hour 0 of the model has a negative
\* leading field, which sorts before every stored timestamp, as an earlier year does.)
get_download_history(plugin_id, days) ==
    LET cutoff == isoformat(now - days * 24)
        rows == OrderByTimestamp(
                    SelectSeq(downloads,
                              LAMBDA row : /\ row.plugin_id = plugin_id
                                           /\ TextLeq(cutoff, row.timestamp)))
    IN  [k \in 1..Len(rows) |-> [timestamp |-> rows[k].timestamp, count |-> rows[k].count]]

\* SELECT success, timestamp FROM scrape_logs WHERE plugin_id = ?
\* ORDER BY timestamp DESC LIMIT n
RecentScrapes(plugin_id, n) ==
    Limit(OrderByTimestampDesc(WherePlugin(scrape_logs, plugin_id)), n)

\* The count of all failures among the rows, the loop never breaking at a success.
CountFailures(recent_scrapes) ==
    Cardinality({k \in 1..Len(recent_scrapes) : ~recent_scrapes[k].success})

\* for scrape in recent_scrapes: if scrape['success']: break; consecutive_failures += 1
RECURSIVE ConsecutiveFailures(_)
ConsecutiveFailures(recent_scrapes) ==
    IF recent_scrapes = <<>> THEN 0
    ELSE IF Head(recent_scrapes).success THEN 0
    ELSE 1 + ConsecutiveFailures(Tail(recent_scrapes))

\* should_retry_scrape without the wait of RETRY_WAIT_HOURS after a failure.
should_retry_scrape_no_wait(plugin_id) ==
    LET last_scrape == RecentScrapes(plugin_id, 1)
    IN  IF last_scrape = <<>> THEN TRUE
        ELSE IF last_scrape[1].success THEN TRUE
        ELSE ConsecutiveFailures(RecentScrapes(plugin_id, RETRY_WINDOW)) < GIVE_UP_FAILURES

should_retry_scrape(plugin_id) ==
    LET last_scrape == RecentScrapes(plugin_id, 1)
    IN  IF last_scrape = <<>> THEN TRUE
        ELSE IF last_scrape[1].success THEN TRUE
        ELSE IF now - fromisoformat(last_scrape[1].timestamp) < RETRY_WAIT_HOURS THEN FALSE
        ELSE ConsecutiveFailures(RecentScrapes(plugin_id, RETRY_WINDOW)) < GIVE_UP_FAILURES

----------------------------------------------------------------------------
(* svg_generator.py: generate_sparkline.  A coordinate is the exact quotient    *)
(* n / d of the float arithmetic, d > 0; the image is the record of the values  *)
(* the f-strings write into the text (each coordinate with two decimals).       *)

SPARKLINE_WIDTH == 200          \* config.SPARKLINE_WIDTH
SPARKLINE_HEIGHT == 50          \* config.SPARKLINE_HEIGHT

Frac(n, d) == [n |-> n, d |-> d]
FracEq(a, b) == a.n * b.d = b.n * a.d
FracLeq(a, b) == a.n * b.d <= b.n * a.d
FracLess(a, b) == a.n * b.d < b.n * a.d

\* `value or default`: None and 0 both take the default (0 stands for both here).
OrDefault(value, default) == IF value = 0 THEN default ELSE value

\* datetime.fromisoformat(record['timestamp']).date(), as a day number
DateOf(timestamp) == fromisoformat(timestamp) \div 24

\* record['timestamp'] raises TypeError on a record that is no dict (an int of a
\* list of counts) and KeyError on a dict without the key.
Subscriptable(record) == {"timestamp", "count"} \subseteq DOMAIN record

\* generate_sparkline has not returned yet.
NotReturned ==
    [returned |-> FALSE, raised |-> "", daily_data |-> <<>>, solid_segments |-> <<>>,
     dotted_segments |-> <<>>, all_points |-> <<>>, svg |-> <<>>]

\* The text of generate_empty_sparkline.
generate_empty_sparkline(w, h) ==
    [width |-> OrDefault(w, SPARKLINE_WIDTH), height |-> OrDefault(h, SPARKLINE_HEIGHT),
     text |-> "No data", polygon |-> <<>>, polylines |-> <<>>]

\* The loop over history, after its first k records: daily_data and prev_date
\* (prev_date = -1 for None).
RECURSIVE DailyLoop(_, _)
DailyLoop(hist, k) ==
    IF k = 0 THEN [daily_data |-> <<>>, prev_date |-> -1]
    ELSE LET s == DailyLoop(hist, k - 1)
             record == hist[k]
             date == DateOf(record.timestamp)
         IN  IF date = s.prev_date
             THEN [s EXCEPT !.daily_data[Len(s.daily_data)] = <<date, record.count>>]
             ELSE [daily_data |-> Append(s.daily_data, <<date, record.count>>),
                   prev_date |-> date]

\* The loop keeping the first entry of a day instead of the last.
DailyDataFirstWins(hist) ==
    LET RECURSIVE Loop(_)
        Loop(k) ==
            IF k = 0 THEN [daily_data |-> <<>>, prev_date |-> -1]
            ELSE LET s == Loop(k - 1)
                     date == DateOf(hist[k].timestamp)
                 IN  IF date = s.prev_date THEN s
                     ELSE [daily_data |-> Append(s.daily_data, <<date, hist[k].count>>),
                           prev_date |-> date]
    IN  Loop(Len(hist)).daily_data

DailyData(hist) == DailyLoop(hist, Len(hist)).daily_data

MinOf(S) == CHOOSE v \in S : \A u \in S : v <= u
MaxOf(S) == CHOOSE v \in S : \A u \in S : u <= v

\* The values the helpers date_to_x and value_to_y close over.
Scale(daily_data, w, h) ==
    LET values == {daily_data[k][2] : k \in 1..Len(daily_data)}
    IN  [width |-> w, height |-> h,
         min_val |-> MinOf(values), max_val |-> MaxOf(values),
         min_date |-> daily_data[1][1],
         date_range_days |-> daily_data[Len(daily_data)][1] - daily_data[1][1]]

\* date_to_x dividing by the number of days of the range, its two ends included.
date_to_x_inclusive(c, date) ==
    IF c.date_range_days = 0
    THEN Frac(c.width, 2)
    ELSE Frac((date - c.min_date) * c.width, c.date_range_days + 1)

date_to_x(c, date) ==
    IF c.date_range_days = 0
    THEN Frac(c.width, 2)
    ELSE Frac((date - c.min_date) * c.width, c.date_range_days)

\* value_to_y without the inversion: padding + normalized * usable_height.
value_to_y_not_inverted(c, value) ==
    IF c.max_val = c.min_val
    THEN Frac(c.height, 2)
    ELSE Frac(c.height * (c.max_val - c.min_val) + 8 * c.height * (value - c.min_val),
              10 * (c.max_val - c.min_val))

\* padding = height * 0.1; usable_height = height - 2 * padding;
\* height - padding - normalized * usable_height, over the common denominator.
value_to_y(c, value) ==
    IF c.max_val = c.min_val
    THEN Frac(c.height, 2)
    ELSE Frac(9 * c.height * (c.max_val - c.min_val) - 8 * c.height * (value - c.min_val),
              10 * (c.max_val - c.min_val))

\* A pair of consecutive daily points one day apart is taken for a gap too.
IsGapFromOneDay(gap_days) == gap_days >= 1

\* if gap_days > 1:
IsGap(gap_days) == gap_days > 1

\* The loop over daily_data, after its first i points.
RECURSIVE SegmentLoop(_, _, _)
SegmentLoop(c, daily_data, i) ==
    IF i = 0
    THEN [solid_segments |-> <<>>, dotted_segments |-> <<>>, all_points |-> <<>>,
          current_solid_segment |-> <<>>]
    ELSE LET s == SegmentLoop(c, daily_data, i - 1)
             date == daily_data[i][1]
             value == daily_data[i][2]
             point == <<date_to_x(c, date), value_to_y(c, value)>>
         IN  IF i = 1
             THEN [s EXCEPT !.current_solid_segment = Append(@, point),
                            !.all_points = Append(@, point)]
             ELSE LET prev_date == daily_data[i - 1][1]
                      prev_value == daily_data[i - 1][2]
                      gap_days == date - prev_date
                      prev_x == date_to_x(c, prev_date)
                      prev_y == value_to_y(c, prev_value)
                      step_point == <<date_to_x(c, date), prev_y>>
                  IN  IF IsGap(gap_days)
                      THEN [solid_segments |->
                                IF s.current_solid_segment # <<>>
                                THEN Append(s.solid_segments, s.current_solid_segment)
                                ELSE s.solid_segments,
                            dotted_segments |->
                                Append(s.dotted_segments, <<<<prev_x, prev_y>>, step_point>>),
                            all_points |-> s.all_points \o <<step_point, point>>,
                            current_solid_segment |-> <<point>>]
                      ELSE [s EXCEPT !.current_solid_segment = Append(@, point),
                                     !.all_points = Append(@, point)]

\* The value generate_sparkline returns (svg), beside its locals; raised names the
\* exception when the call raises instead.
generate_sparkline(hist, w, h) ==
    IF hist = <<>>
    THEN [NotReturned EXCEPT !.returned = TRUE, !.svg = generate_empty_sparkline(w, h)]
    ELSE IF \E k \in 1..Len(hist) : ~Subscriptable(hist[k])
    THEN [NotReturned EXCEPT !.returned = TRUE, !.raised = "TypeError"]
    ELSE LET wd == OrDefault(w, SPARKLINE_WIDTH)
             ht == OrDefault(h, SPARKLINE_HEIGHT)
             daily_data == DailyData(hist)
             c == Scale(daily_data, wd, ht)
             s == SegmentLoop(c, daily_data, Len(daily_data))
             solid_segments == IF s.current_solid_segment # <<>>
                               THEN Append(s.solid_segments, s.current_solid_segment)
                               ELSE s.solid_segments
             area_points == <<<<Frac(0, 1), Frac(ht, 1)>>>> \o s.all_points
                                \o <<<<Frac(wd, 1), Frac(ht, 1)>>>>
             polylines ==
                 [k \in 1..Len(solid_segments) |->
                     [points |-> solid_segments[k], dasharray |-> ""]]
                 \o [k \in 1..Len(s.dotted_segments) |->
                     [points |-> s.dotted_segments[k], dasharray |-> "4,4"]]
         IN  [returned |-> TRUE, raised |-> "", daily_data |-> daily_data,
              solid_segments |-> solid_segments,
              dotted_segments |-> s.dotted_segments,
              all_points |-> s.all_points,
              svg |-> [width |-> wd, height |-> ht, text |-> "",
                       polygon |-> area_points, polylines |-> polylines]]

----------------------------------------------------------------------------
(* svg_generator.py: format_number.  A string is the sequence of its characters. *)
(* num / 1000 is the IEEE double nearest to the quotient, and '.1f' writes the   *)
(* decimal nearest to that double (an exact tie going to the even digit).        *)

DigitChars == <<"0", "1", "2", "3", "4", "5", "6", "7", "8", "9">>

\* str(n) of an int n >= 0
RECURSIVE str(_)
str(n) == IF n < 10 THEN <<DigitChars[n + 1]>>
          ELSE str(n \div 10) \o <<DigitChars[(n % 10) + 1]>>

\* The exponent e of the double nearest to a / d: 2^e <= a / d < 2^(e + 1), a >= d.
RECURSIVE Exponent(_, _)
Exponent(a, d) == IF 2 * d <= a THEN 1 + Exponent(a, 2 * d) ELSE 0

\* 2^k modulo 5
Pow2Mod5(k) == <<1, 2, 4, 3>>[(k % 4) + 1]

\* x = (2q + 1) / 20 lies halfway between the tenths q and q + 1.  Its double is
\* round(x * 2^(52 - e)) / 2^(52 - e); x * 2^(52 - e) = (2q + 1) * 2^(50 - e) / 5 is
\* an integer (the double is exact, the tie goes to the even tenth) or has the
\* fractional part r / 5, which decides on which side of x the double lies.
TieRoundsUp(q) ==
    LET a == 2 * q + 1
        r == ((a % 5) * Pow2Mod5(50 - Exponent(a, 20))) % 5
    IN  IF r = 0 THEN q % 2 = 1 ELSE r \in {3, 4}

\* The tenths '.1f' writes for n / (10 * unit)
Tenths(n, unit) ==
    LET q == n \div unit
        r == n % unit
    IN  IF 2 * r < unit THEN q
        ELSE IF 2 * r > unit THEN q + 1
        ELSE IF TieRoundsUp(q) THEN q + 1 ELSE q

\* f"{x:.1f}" for the tenths t of x
OneDecimal(t) == str(t \div 10) \o <<".">> \o <<DigitChars[(t % 10) + 1]>>

\* format_number comparing with > instead of >=.
format_number_above(n) ==
    IF n > 1000000 THEN OneDecimal(Tenths(n, 100000)) \o <<"M">>
    ELSE IF n > 1000 THEN OneDecimal(Tenths(n, 100)) \o <<"k">>
    ELSE str(n)

format_number(n) ==
    IF n >= 1000000 THEN OneDecimal(Tenths(n, 100000)) \o <<"M">>
    ELSE IF n >= 1000 THEN OneDecimal(Tenths(n, 100)) \o <<"k">>
    ELSE str(n)

----------------------------------------------------------------------------
(* State *)

\* What the plugin portal would answer a fetch of this request: a count, or a
\* failure that scraper.fetch_download_count turns into ScraperError.
FetchOutcomes == {[ok |-> TRUE, count |-> c] : c \in Counts} \cup {[ok |-> FALSE, count |-> 0]}

Idle ==
    [pc |-> "idle", plugin_id |-> "", portal |-> [ok |-> FALSE, count |-> 0],
     allowed |-> FALSE, fetches |-> 0, status |-> 0, error |-> "",
     last_fetched |-> None, timestamp |-> None]

\* No GET request has been answered yet.
NoResponse ==
    [endpoint |-> "", plugin_id |-> "", args |-> <<>>, days |-> 0, raised |-> FALSE,
     status |-> 0, mimetype |-> "", body |-> <<>>]

\* No query of database.py has been called on its own.
NotCalled ==
    [function |-> "", plugin_id |-> "", days |-> 0, raised |-> FALSE, value |-> <<>>]

\* The tables as one connection sees them.
Tables(p, d, s) == [plugins |-> p, downloads |-> d, scrape_logs |-> s]

\* No database operation is in progress: there is no connection.
NoConnection ==
    [pc |-> "none", open |-> FALSE, function |-> "", plugin_id |-> "", count |-> 0,
     timestamp |-> None, error_message |-> "", executed |-> 0, committed |-> FALSE,
     raised |-> FALSE,
     before |-> Tables({}, <<>>, <<>>), tx |-> Tables({}, <<>>, <<>>)]

\* The database after init_database() on a new file: the tables exist and are empty.
EmptyStore ==
    /\ now = 0
    /\ plugins = {}
    /\ downloads = <<>>
    /\ scrape_logs = <<>>
    /\ recorded = [p \in PluginIds |-> -1]

\* No function of svg_generator is being called on its own.
NoCall ==
    /\ history = <<>>
    /\ width = 0
    /\ height = 0
    /\ sparkline = NotReturned
    /\ num = 0
    /\ formatted = <<>>

\* No function of database.py is being called on its own.
NoDbCall ==
    /\ returned = NotCalled
    /\ conn = NoConnection

Init ==
    /\ EmptyStore
    /\ req = [r \in Requests |-> Idle]
    /\ response = NoResponse
    /\ NoCall
    /\ NoDbCall

----------------------------------------------------------------------------
(* The clock *)

Tick(d) ==
    /\ now' = now + d
    /\ UNCHANGED <<plugins, downloads, scrape_logs, req, recorded, response, calls, dbcalls>>

----------------------------------------------------------------------------
(* database.py: writes.  Each runs in one get_db() scope, committed as a whole. *)

\* add_download_record overwriting the plugin's newest row (an upsert) instead of
\* inserting a new one.
add_download_record_upsert(plugin_id, count, timestamp) ==
    LET ts == IF timestamp = None THEN isoformat(now) ELSE timestamp
        row == [plugin_id |-> plugin_id, timestamp |-> ts, count |-> count]
        mine == {i \in 1..Len(downloads) : downloads[i].plugin_id = plugin_id}
    IN  /\ plugins' = InsertOrIgnorePlugin(plugins, plugin_id, isoformat(now))
        /\ downloads' = IF mine = {}
                        THEN Append(downloads, row)
                        ELSE [downloads EXCEPT ![CHOOSE i \in mine : \A j \in mine : j <= i] = row]
        /\ recorded' = [recorded EXCEPT ![plugin_id] =
                            IF timestamp = None THEN now ELSE -1]
        /\ UNCHANGED <<now, scrape_logs, req, response, calls, dbcalls>>

\* timestamp = None stands for the omitted argument.
add_download_record(plugin_id, count, timestamp) ==
    LET ts == IF timestamp = None THEN isoformat(now) ELSE timestamp
    IN  /\ plugins' = InsertOrIgnorePlugin(plugins, plugin_id, isoformat(now))
        /\ downloads' = Append(downloads,
                               [plugin_id |-> plugin_id, timestamp |-> ts, count |-> count])
        /\ recorded' = [recorded EXCEPT ![plugin_id] =
                            IF timestamp = None THEN now ELSE -1]
        /\ UNCHANGED <<now, scrape_logs, req, response, calls, dbcalls>>

log_scrape_success(plugin_id) ==
    /\ scrape_logs' = Append(scrape_logs,
                             [plugin_id |-> plugin_id, timestamp |-> isoformat(now),
                              success |-> TRUE, error_message |-> "NULL"])
    /\ UNCHANGED <<now, plugins, downloads, req, recorded, response, calls, dbcalls>>

log_scrape_error(plugin_id, error_message) ==
    /\ scrape_logs' = Append(scrape_logs,
                             [plugin_id |-> plugin_id, timestamp |-> isoformat(now),
                              success |-> FALSE, error_message |-> error_message])
    /\ UNCHANGED <<now, plugins, downloads, req, recorded, response, calls, dbcalls>>

----------------------------------------------------------------------------
(* app.py: POST /update/<plugin_id>.  Every database call is a transaction of *)
(* its own, so the handler is a sequence of steps other requests interleave   *)
(* with.                                                                      *)

\* The request arrives.
UpdateBegin(r, plugin_id, portal) ==
    /\ req[r].pc = "idle"
    /\ req' = [req EXCEPT ![r] = [Idle EXCEPT !.pc = "can_update",
                                              !.plugin_id = plugin_id,
                                              !.portal = portal]]
    /\ UNCHANGED <<now, plugins, downloads, scrape_logs, recorded, response, calls, dbcalls>>

\* The handler going on whatever can_update answers.
UpdateCanUpdateUnchecked(r) ==
    /\ req[r].pc = "can_update"
    /\ req' = [req EXCEPT ![r].allowed = can_update(req[r].plugin_id),
                          ![r].pc = "add_or_update_plugin"]
    /\ UNCHANGED <<now, plugins, downloads, scrape_logs, recorded, response, calls, dbcalls>>

\* if not database.can_update(plugin_id):
UpdateCanUpdate(r) ==
    /\ req[r].pc = "can_update"
    /\ LET allowed == can_update(req[r].plugin_id)
       IN  req' = [req EXCEPT ![r].allowed = allowed,
                              ![r].pc = IF allowed THEN "add_or_update_plugin"
                                                   ELSE "get_last_fetched"]
    /\ UNCHANGED <<now, plugins, downloads, scrape_logs, recorded, response, calls, dbcalls>>

\* last_fetched = database.get_last_fetched(plugin_id); return ..., 429
UpdateThrottled(r) ==
    /\ req[r].pc = "get_last_fetched"
    /\ req' = [req EXCEPT ![r].last_fetched = get_last_fetched(req[r].plugin_id),
                          ![r].status = 429,
                          ![r].error = "Too many requests",
                          ![r].pc = "done"]
    /\ UNCHANGED <<now, plugins, downloads, scrape_logs, recorded, response, calls, dbcalls>>

\* data = request.get_json() or {}; name = data.get('name');
\* database.add_or_update_plugin(plugin_id, 'netbeans', name): module database
\* defines no add_or_update_plugin, so whatever the body held the call raises
\* AttributeError (if reading the body has not raised before it), which
\* `except Exception` turns into the 500 response.  The fetch and the insert that
\* follow the call in the handler are never reached.
UpdateAddOrUpdatePlugin(r) ==
    /\ req[r].pc = "add_or_update_plugin"
    /\ req' = [req EXCEPT ![r].status = 500,
                          ![r].error = "Internal server error",
                          ![r].pc = "done"]
    /\ UNCHANGED <<now, plugins, downloads, scrape_logs, recorded, response, calls, dbcalls>>

\* The response has been sent.
UpdateReturn(r) ==
    /\ req[r].pc = "done"
    /\ req' = [req EXCEPT ![r] = Idle]
    /\ UNCHANGED <<now, plugins, downloads, scrape_logs, recorded, response, calls, dbcalls>>

update_endpoint(r, portals) ==
    \/ \E p \in PluginIds, portal \in portals : UpdateBegin(r, p, portal)
    \/ UpdateCanUpdate(r)
    \/ UpdateThrottled(r)
    \/ UpdateAddOrUpdatePlugin(r)
    \/ UpdateReturn(r)

----------------------------------------------------------------------------
(* app.py: GET /api/<plugin_id> and GET /sparkline/<plugin_id>.  Each makes one  *)
(* database call, so each is one step.  `raises` says that the database call     *)
(* raises (sqlite3.Error out of get_db: the file is locked or unreadable).       *)

DEFAULT_SPARKLINE_DAYS == 30    \* config.DEFAULT_SPARKLINE_DAYS
MIN_DAYS == 1                   \* max(1, ...)
MAX_DAYS == 365                 \* min(days, 365)
DEFAULT_BADGE_LABEL == "downloads"
DEFAULT_BADGE_COLOR == <<"#", "0", "0", "7", "e", "c", "6">>
NO_DATA == <<"n", "o", " ", "d", "a", "t", "a">>
LIGHTGREY == <<"l", "i", "g", "h", "t", "g", "r", "e", "y">>
ERROR == <<"e", "r", "r", "o", "r">>
RED == <<"r", "e", "d">>

\* int(text): an optional sign and decimal digits, ValueError otherwise.
DigitValue(ch) == CHOOSE d \in 0..9 : DigitChars[d + 1] = ch
IsDigits(text) == text # <<>> /\ \A k \in 1..Len(text) : \E d \in 0..9 : DigitChars[d + 1] = text[k]
RECURSIVE DecimalValue(_)
DecimalValue(text) ==
    IF text = <<>> THEN 0
    ELSE 10 * DecimalValue(SubSeq(text, 1, Len(text) - 1)) + DigitValue(text[Len(text)])
HasSign(text) == text # <<>> /\ text[1] \in {"-", "+"}
IsIntText(text) == IsDigits(IF HasSign(text) THEN Tail(text) ELSE text)
IntOf(text) ==
    IF HasSign(text)
    THEN (IF text[1] = "-" THEN -1 ELSE 1) * DecimalValue(Tail(text))
    ELSE DecimalValue(text)

\* request.args.get(key, default, type=int): the default when the key is absent or
\* int() raises ValueError on its text.
ArgsGetInt(args, key, default) ==
    IF key \notin DOMAIN args THEN default
    ELSE IF IsIntText(args[key]) THEN IntOf(args[key])
    ELSE default

\* The lookback without the lower limit: min(days, 365).
ClampDaysAbove(days) == IF days < MAX_DAYS THEN days ELSE MAX_DAYS

\* max(1, min(days, 365))
ClampDays(days) ==
    LET capped == IF days < MAX_DAYS THEN days ELSE MAX_DAYS
    IN  IF capped > MIN_DAYS THEN capped ELSE MIN_DAYS

\* str.lstrip(ch)
RECURSIVE lstrip(_, _)
lstrip(text, ch) ==
    IF text # <<>> /\ Head(text) = ch THEN lstrip(Tail(text), ch) ELSE text

\* jsonify({'schemaVersion': 1, 'label': ..., 'message': ..., 'color': ...})
Badge(message, color) ==
    [schemaVersion |-> 1, label |-> DEFAULT_BADGE_LABEL, message |-> message, color |-> color]

\* counts = [record['count'] for record in history]: a list of ints, no dicts.
Counts_of(hist) == [k \in 1..Len(hist) |-> [int |-> hist[k].count]]

\* api_endpoint registering the plugin it is asked about (INSERT OR IGNORE INTO
\* plugins, as add_plugin_if_not_exists does) before it reads the count.
api_endpoint_registering(plugin_id, raises) ==
    /\ response' =
          IF raises
          THEN [endpoint |-> "api", plugin_id |-> plugin_id, args |-> <<>>, days |-> 0,
                raised |-> TRUE, status |-> 500, mimetype |-> "application/json",
                body |-> Badge(ERROR, RED)]
          ELSE LET count == get_latest_download_count(plugin_id)
               IN  [endpoint |-> "api", plugin_id |-> plugin_id, args |-> <<>>, days |-> 0,
                    raised |-> FALSE, status |-> 200, mimetype |-> "application/json",
                    body |-> IF count = None
                             THEN Badge(NO_DATA, LIGHTGREY)
                             ELSE Badge(format_number(count[1]),
                                        lstrip(DEFAULT_BADGE_COLOR, "#"))]
    /\ plugins' = InsertOrIgnorePlugin(plugins, plugin_id, isoformat(now))
    /\ UNCHANGED <<now, downloads, scrape_logs, req, recorded, calls, dbcalls>>

api_endpoint(plugin_id, raises) ==
    /\ response' =
          IF raises
          THEN [endpoint |-> "api", plugin_id |-> plugin_id, args |-> <<>>, days |-> 0,
                raised |-> TRUE, status |-> 500, mimetype |-> "application/json",
                body |-> Badge(ERROR, RED)]
          ELSE LET count == get_latest_download_count(plugin_id)
               IN  [endpoint |-> "api", plugin_id |-> plugin_id, args |-> <<>>, days |-> 0,
                    raised |-> FALSE, status |-> 200, mimetype |-> "application/json",
                    body |-> IF count = None
                             THEN Badge(NO_DATA, LIGHTGREY)
                             ELSE Badge(format_number(count[1]),
                                        lstrip(DEFAULT_BADGE_COLOR, "#"))]
    /\ UNCHANGED <<now, plugins, downloads, scrape_logs, req, recorded, calls, dbcalls>>

\* sparkline_endpoint whose handler answers an exception with an empty body.
sparkline_endpoint_empty_on_error(plugin_id, args, raises) ==
    LET days == ClampDays(ArgsGetInt(args, "days", DEFAULT_SPARKLINE_DAYS))
        hist == get_download_history(plugin_id, days)
        rendered == generate_sparkline(Counts_of(hist), 0, 0)
        failed == raises \/ (hist # <<>> /\ rendered.raised # "")
    IN  /\ response' =
              [endpoint |-> "sparkline", plugin_id |-> plugin_id, args |-> args,
               days |-> days, raised |-> raises,
               status |-> IF failed THEN 500 ELSE 200,
               mimetype |-> "image/svg+xml",
               body |-> IF failed THEN <<>>
                        ELSE IF hist = <<>> THEN generate_empty_sparkline(0, 0)
                        ELSE rendered.svg]
        /\ UNCHANGED <<now, plugins, downloads, scrape_logs, req, recorded, calls, dbcalls>>

sparkline_endpoint(plugin_id, args, raises) ==
    LET days == ClampDays(ArgsGetInt(args, "days", DEFAULT_SPARKLINE_DAYS))
        hist == get_download_history(plugin_id, days)
        rendered == generate_sparkline(Counts_of(hist), 0, 0)
        failed == raises \/ (hist # <<>> /\ rendered.raised # "")
    IN  /\ response' =
              [endpoint |-> "sparkline", plugin_id |-> plugin_id, args |-> args,
               days |-> days, raised |-> raises,
               status |-> IF failed THEN 500 ELSE 200,
               mimetype |-> "image/svg+xml",
               body |-> IF failed THEN generate_empty_sparkline(0, 0)
                        ELSE IF hist = <<>> THEN generate_empty_sparkline(0, 0)
                        ELSE rendered.svg]
        /\ UNCHANGED <<now, plugins, downloads, scrape_logs, req, recorded, calls, dbcalls>>

\* GET /health
health ==
    /\ response' =
          [endpoint |-> "health", plugin_id |-> "", args |-> <<>>, days |-> 0,
           raised |-> FALSE, status |-> 200, mimetype |-> "application/json",
           body |-> [status |-> "ok"]]
    /\ UNCHANGED <<now, plugins, downloads, scrape_logs, req, recorded, calls, dbcalls>>

\* The response of the GET request has been sent.
ResponseSent ==
    /\ response # NoResponse
    /\ response' = NoResponse
    /\ UNCHANGED <<now, plugins, downloads, scrape_logs, req, recorded, calls, dbcalls>>

----------------------------------------------------------------------------
(* Environment *)

\* datetime.now() has microsecond resolution and every insert is a transaction of
\* its own: two log rows of one plugin are never written at the same instant.
FreshInstant(plugin_id) ==
    \A i \in 1..Len(scrape_logs) :
        scrape_logs[i].plugin_id = plugin_id
            => TextLess(scrape_logs[i].timestamp, isoformat(now))

\* A caller records a sample, with the default timestamp or an explicit earlier one.
RecordSample(plugin_ids, counts, limit) ==
    /\ Len(downloads) < limit
    /\ \E p \in plugin_ids, c \in counts :
          \/ add_download_record(p, c, None)
          \/ \E lag \in ExplicitLags :
                /\ now - lag >= 0
                /\ add_download_record(p, c, isoformat(now - lag))

\* A caller logs a scrape attempt.
LogScrape(plugin_ids, limit) ==
    /\ Len(scrape_logs) < limit
    /\ \E p \in plugin_ids :
          /\ FreshInstant(p)
          /\ \/ log_scrape_success(p)
             \/ \E m \in ErrorMessages : log_scrape_error(p, m)

\* Time passes, for at most `limit` steps of the clock.
ClockAdvance(limit) ==
    \E d \in AdvanceSteps :
        /\ now + d <= limit * 12
        /\ Tick(d)

----------------------------------------------------------------------------
(* Specifications *)

\* The service: concurrent update requests beside recorded samples.
Next ==
    \/ ClockAdvance(MaxTicks)
    \/ RecordSample(PluginIds, Counts, MaxStored)
    \/ \E r \in Requests : update_endpoint(r, FetchOutcomes)

Spec == Init /\ [][Next]_vars

\* The throttle over the download history, beside an unrelated scrape log.
NextDb ==
    \/ ClockAdvance(MaxTicks)
    \/ RecordSample(PluginIds, Counts, MaxSamples)
    \/ LogScrape({"p1"}, MaxStoreLogs)

SpecDb == Init /\ [][NextDb]_vars

\* The retry policy over the scrape log alone.
NextRetry ==
    \/ ClockAdvance(MaxRetryTicks)
    \/ LogScrape(PluginIds, MaxLogs)

SpecRetry == Init /\ [][NextRetry]_vars

\* Every writer of the store: samples, log entries and an update request.
NextStore ==
    \/ ClockAdvance(MaxTicks)
    \/ RecordSample(PluginIds, Counts, MaxStored)
    \/ LogScrape({"p1"}, MaxStoreLogs)
    \/ update_endpoint("r1", {o \in FetchOutcomes : o.ok})

SpecStore == Init /\ [][NextStore]_vars

\* A GET request arrives once the one before it has been answered.
GetApi(plugin_ids) ==
    /\ response = NoResponse
    /\ \E p \in plugin_ids, raises \in BOOLEAN : api_endpoint(p, raises)

GetSparkline(plugin_ids, query_args) ==
    /\ response = NoResponse
    /\ \E p \in plugin_ids, args \in query_args, raises \in BOOLEAN :
          sparkline_endpoint(p, args, raises)

\* The badge and the sparkline read beside recorded samples.
NextRead ==
    \/ ClockAdvance(MaxTicks)
    \/ RecordSample(PluginIds, ReadCounts, MaxStored)
    \/ GetApi(PluginIds)
    \/ GetSparkline(PluginIds, WindowArgs)
    \/ ResponseSent

SpecRead == Init /\ [][NextRead]_vars

\* GET /sparkline with every query string, beside the samples of one plugin.
NextQuery ==
    \/ ClockAdvance(MaxTicks)
    \/ RecordSample({"p1"}, {999}, MaxStoreLogs)
    \/ GetSparkline({"p1"}, QueryArgs)
    \/ ResponseSent

SpecQuery == Init /\ [][NextQuery]_vars

----------------------------------------------------------------------------
(* database.py: the queries called on their own *)

ReadFunctions == {"can_update", "get_last_fetched", "get_download_history", "should_retry_scrape"}

\* The windows a caller of get_download_history asks for (days=30 when omitted).
HistoryDays == {1, 30}

\* value = function(plugin_id), or function(plugin_id, days) for get_download_history;
\* `raises` is a statement of the query raising sqlite3.Error, which get_db passes on
\* to the caller after its rollback.
Query(function, plugin_id, days, raises) ==
    /\ returned' =
          [function |-> function, plugin_id |-> plugin_id, days |-> days, raised |-> raises,
           value |-> IF raises THEN <<>>
                     ELSE CASE function = "can_update" -> <<can_update(plugin_id)>>
                            [] function = "get_last_fetched" -> <<get_last_fetched(plugin_id)>>
                            [] function = "get_download_history" ->
                                    <<get_download_history(plugin_id, days)>>
                            [] function = "should_retry_scrape" ->
                                    <<should_retry_scrape(plugin_id)>>]
    /\ UNCHANGED <<now, plugins, downloads, scrape_logs, req, recorded, response, calls, conn>>

\* The caller has taken the result (or the exception) of the query.
QueryReturned ==
    /\ returned.function # ""
    /\ returned' = NotCalled
    /\ UNCHANGED <<now, plugins, downloads, scrape_logs, req, recorded, response, calls, conn>>

\* A read begins once the one before it has been answered.
GetHealth ==
    /\ response = NoResponse
    /\ returned.function = ""
    /\ health

CallQuery(plugin_ids) ==
    /\ response = NoResponse
    /\ returned.function = ""
    /\ \E function \in ReadFunctions, p \in plugin_ids, raises \in BOOLEAN :
          \/ function = "get_download_history"
                /\ \E days \in HistoryDays : Query(function, p, days, raises)
          \/ function # "get_download_history"
                /\ Query(function, p, 0, raises)

\* Every read operation beside the writers of the three tables.
NextReads ==
    \/ ClockAdvance(MaxTicks)
    \/ RecordSample({"p1"}, {999}, MaxStored)
    \/ LogScrape({"p1"}, MaxStoreLogs)
    \/ returned.function = "" /\ GetApi(PluginIds)
    \/ returned.function = "" /\ GetSparkline(PluginIds, WindowArgs)
    \/ GetHealth
    \/ CallQuery(PluginIds)
    \/ ResponseSent
    \/ QueryReturned

SpecReads == Init /\ [][NextReads]_vars

----------------------------------------------------------------------------
(* database.py: get_db, statement by statement.  An operation is `with get_db()  *)
(* as conn:` around the statements of its body: the connection is opened, the    *)
(* statements run inside one transaction (sqlite3 opens it before the first      *)
(* INSERT), then the scope commits, or rolls back and re-raises, and closes.     *)

DbFunctions ==
    {"add_plugin_if_not_exists", "add_download_record", "get_last_fetched", "log_scrape_error"}

\* The statements the body of an operation executes, in order.
Statements(function) ==
    CASE function = "add_plugin_if_not_exists" -> <<"INSERT OR IGNORE INTO plugins">>
      [] function = "add_download_record" ->
              <<"INSERT OR IGNORE INTO plugins", "INSERT INTO downloads">>
      [] function = "get_last_fetched" -> <<"SELECT timestamp FROM downloads">>
      [] function = "log_scrape_error" -> <<"INSERT INTO scrape_logs">>

\* The committed tables: what every other connection sees.
Stored == Tables(plugins, downloads, scrape_logs)

\* cursor.execute(statement, ...) on connection c: the tables as c sees them afterwards.
Execute(c, statement) ==
    CASE statement = "INSERT OR IGNORE INTO plugins" ->
              [c.tx EXCEPT !.plugins = InsertOrIgnorePlugin(@, c.plugin_id, isoformat(now))]
      [] statement = "INSERT INTO downloads" ->
              [c.tx EXCEPT !.downloads =
                  Append(@, [plugin_id |-> c.plugin_id, timestamp |-> c.timestamp,
                             count |-> c.count])]
      [] statement = "INSERT INTO scrape_logs" ->
              [c.tx EXCEPT !.scrape_logs =
                  Append(@, [plugin_id |-> c.plugin_id, timestamp |-> isoformat(now),
                             success |-> FALSE, error_message |-> c.error_message])]
      [] statement = "SELECT timestamp FROM downloads" -> c.tx

\* conn = sqlite3.connect(config.DATABASE_PATH), entered from `with get_db()` of
\* function(plugin_id, ...); add_download_record has taken its timestamp before.
\* `raises` is connect raising: no connection exists and the caller gets the exception.
get_db_connect(function, plugin_id, count, error_message, raises) ==
    /\ conn.pc = "none"
    /\ conn' =
          [pc |-> IF raises THEN "done" ELSE "body", open |-> ~raises,
           function |-> function, plugin_id |-> plugin_id, count |-> count,
           timestamp |-> IF function = "add_download_record" THEN isoformat(now) ELSE None,
           error_message |-> error_message, executed |-> 0, committed |-> FALSE,
           raised |-> raises, before |-> Stored, tx |-> Stored]
    /\ UNCHANGED <<now, plugins, downloads, scrape_logs, req, recorded, response, calls,
                   returned>>

\* get_db on a connection in autocommit mode (isolation_level=None): every statement
\* is committed as it is executed.
get_db_yield_autocommit ==
    /\ conn.pc = "body"
    /\ conn.executed < Len(Statements(conn.function))
    /\ \E raises \in BOOLEAN :
          IF raises
          THEN /\ conn' = [conn EXCEPT !.pc = "except"]
               /\ UNCHANGED <<plugins, downloads, scrape_logs>>
          ELSE LET tx == Execute(conn, Statements(conn.function)[conn.executed + 1])
               IN  /\ conn' = [conn EXCEPT !.tx = tx, !.executed = @ + 1]
                   /\ plugins' = tx.plugins
                   /\ downloads' = tx.downloads
                   /\ scrape_logs' = tx.scrape_logs
    /\ UNCHANGED <<now, req, recorded, response, calls, returned>>

\* yield conn: the body executes its next statement, which may raise sqlite3.Error.
get_db_yield ==
    /\ conn.pc = "body"
    /\ conn.executed < Len(Statements(conn.function))
    /\ \E raises \in BOOLEAN :
          conn' = IF raises
                  THEN [conn EXCEPT !.pc = "except"]
                  ELSE [conn EXCEPT
                           !.tx = Execute(conn, Statements(conn.function)[conn.executed + 1]),
                           !.executed = @ + 1]
    /\ UNCHANGED <<now, plugins, downloads, scrape_logs, req, recorded, response, calls,
                   returned>>

\* conn.commit(), once the body has completed; a commit that raises is handled by
\* the except clause like a raising body.
get_db_commit ==
    /\ conn.pc = "body"
    /\ conn.executed = Len(Statements(conn.function))
    /\ \E raises \in BOOLEAN :
          IF raises
          THEN /\ conn' = [conn EXCEPT !.pc = "except"]
               /\ UNCHANGED <<plugins, downloads, scrape_logs, recorded>>
          ELSE /\ conn' = [conn EXCEPT !.pc = "finally", !.committed = TRUE]
               /\ plugins' = conn.tx.plugins
               /\ downloads' = conn.tx.downloads
               /\ scrape_logs' = conn.tx.scrape_logs
               /\ recorded' = IF conn.function = "add_download_record"
                               THEN [recorded EXCEPT ![conn.plugin_id] =
                                        fromisoformat(conn.timestamp)]
                               ELSE recorded
    /\ UNCHANGED <<now, req, response, calls, returned>>

\* except Exception: conn.rollback(); raise
get_db_rollback ==
    /\ conn.pc = "except"
    /\ conn' = [conn EXCEPT !.pc = "finally", !.raised = TRUE, !.tx = Stored]
    /\ UNCHANGED <<now, plugins, downloads, scrape_logs, req, recorded, response, calls,
                   returned>>

\* finally: conn.close()
get_db_close ==
    /\ conn.pc = "finally"
    /\ conn' = [conn EXCEPT !.pc = "done", !.open = FALSE]
    /\ UNCHANGED <<now, plugins, downloads, scrape_logs, req, recorded, response, calls,
                   returned>>

\* The operation has returned (or raised) to its caller.
DbCallReturned ==
    /\ conn.pc = "done"
    /\ conn' = NoConnection
    /\ UNCHANGED <<now, plugins, downloads, scrape_logs, req, recorded, response, calls,
                   returned>>

\* A caller starts a database operation once the one before it has ended; SQLite
\* lets one connection write at a time.
DbCall(plugin_ids, limit, log_limit) ==
    \E function \in DbFunctions, p \in plugin_ids, c \in Counts, m \in ErrorMessages,
       raises \in BOOLEAN :
        /\ function = "add_download_record" => Len(downloads) < limit
        /\ function = "log_scrape_error" => Len(scrape_logs) < log_limit /\ FreshInstant(p)
        /\ get_db_connect(function, p, c, m, raises)

\* Database operations step by step, any statement of which may raise.
NextTx ==
    \/ ClockAdvance(MaxTxTicks)
    \/ DbCall(PluginIds, MaxRows, MaxStoreLogs)
    \/ get_db_yield
    \/ get_db_commit
    \/ get_db_rollback
    \/ get_db_close
    \/ DbCallReturned

SpecTx == Init /\ [][NextTx]_vars

----------------------------------------------------------------------------
(* generate_sparkline called on its own *)

\* A record of a history, as get_download_history builds it.
HistoryRecords ==
    {[timestamp |-> isoformat(24 * d + h), count |-> c] :
        d \in RenderDays, h \in RenderHours, c \in RenderCounts}

\* The histories of at most n records sorted by timestamp ASC (ORDER BY timestamp ASC).
RECURSIVE SortedHistories(_)
SortedHistories(n) ==
    IF n = 0 THEN {<<>>}
    ELSE LET shorter == SortedHistories(n - 1)
         IN  shorter \cup
             UNION {{Append(hist, record) :
                        record \in {r \in HistoryRecords :
                                       \/ hist = <<>>
                                       \/ TextLeq(hist[Len(hist)].timestamp, r.timestamp)}} :
                    hist \in {g \in shorter : Len(g) = n - 1}}

InitRender ==
    /\ EmptyStore
    /\ req = [r \in Requests |-> Idle]
    /\ response = NoResponse
    /\ history \in SortedHistories(MaxHistory)
    /\ \E size \in RenderSizes : width = size[1] /\ height = size[2]
    /\ sparkline = NotReturned
    /\ num = 0
    /\ formatted = <<>>
    /\ NoDbCall

\* svg = generate_sparkline(history, width, height)
Render ==
    /\ ~sparkline.returned
    /\ sparkline' = generate_sparkline(history, width, height)
    /\ UNCHANGED <<now, plugins, downloads, scrape_logs, req, recorded, response,
                   history, width, height, num, formatted, dbcalls>>

NextRender == Render

SpecRender == InitRender /\ [][NextRender]_vars

----------------------------------------------------------------------------
(* format_number called on its own *)

InitFormat ==
    /\ EmptyStore
    /\ req = [r \in Requests |-> Idle]
    /\ response = NoResponse
    /\ history = <<>>
    /\ width = 0
    /\ height = 0
    /\ sparkline = NotReturned
    /\ num \in (0..MaxSmallNum) \cup LargeNums
    /\ formatted = <<>>
    /\ NoDbCall

\* formatted = format_number(num)
Format ==
    /\ formatted = <<>>
    /\ formatted' = format_number(num)
    /\ UNCHANGED <<now, plugins, downloads, scrape_logs, req, recorded, response,
                   history, width, height, sparkline, num, dbcalls>>

NextFormat == Format

SpecFormat == InitFormat /\ [][NextFormat]_vars

----------------------------------------------------------------------------
(* Properties *)

\* The rows of downloads that belong to a plugin, and the instant a row carries.
SamplesOf(plugin_id) == {i \in 1..Len(downloads) : downloads[i].plugin_id = plugin_id}
SampleHours(i) == fromisoformat(downloads[i].timestamp)

\* C1: can_update(plugin) is true if and only if the plugin has no sample, or the
\* current time minus the timestamp of its most recent sample (the one with the
\* greatest timestamp) is at least THROTTLE_HOURS; nothing else (samples of other
\* plugins, the scrape log) enters the result.
CanUpdateContract ==
    \A p \in PluginIds :
        can_update(p) <=>
            \/ SamplesOf(p) = {}
            \/ \E i \in SamplesOf(p) :
                  /\ \A j \in SamplesOf(p) : SampleHours(j) <= SampleHours(i)
                  /\ now - SampleHours(i) >= THROTTLE_HOURS

\* A plugin whose newest row by rowid is not its most recent sample may update
\* exactly THROTTLE_HOURS after that sample, while another plugin is throttled and
\* its own last logged scrape is a fresh failure.
CanUpdateWitness ==
    \E p \in PluginIds, q \in PluginIds :
        /\ p # q
        /\ Cardinality(SamplesOf(p)) >= 2
        /\ get_last_fetched_by_rowid(p) # get_last_fetched(p)
        /\ now - fromisoformat(get_last_fetched(p)) = THROTTLE_HOURS
        /\ can_update(p)
        /\ SamplesOf(q) # {}
        /\ ~can_update(q)
        /\ \E i \in 1..Len(scrape_logs) :
              /\ scrape_logs[i].plugin_id = p
              /\ ~scrape_logs[i].success
              /\ fromisoformat(scrape_logs[i].timestamp) = now

\* C2: can_update is true while the plugin has no sample; it is false right after
\* a sample is recorded with the current time as its timestamp (recorded[p] = now:
\* the newest row was written at this clock value); and as long as no further sample
\* is recorded it is true in every state in which the clock has advanced by
\* THROTTLE_HOURS or more since.
ThrottleLifecycle ==
    \A p \in PluginIds :
        /\ SamplesOf(p) = {} => can_update(p)
        /\ (recorded[p] >= 0 /\ recorded[p] = now) => ~can_update(p)
        /\ (recorded[p] >= 0 /\ now - recorded[p] >= THROTTLE_HOURS) => can_update(p)

\* The throttle of a sample recorded with the current time has just run out.
ThrottleElapsedWitness ==
    \E p \in PluginIds :
        /\ recorded[p] >= 0
        /\ now - recorded[p] = THROTTLE_HOURS
        /\ can_update(p)

\* C3: an update request that passed the throttle check and whose fetch would
\* return a count ends with HTTP 200 and a new sample of the plugin holding the
\* fetched count and the timestamp of the response.
UpdateSuccess ==
    \A r \in Requests :
        (req[r].pc = "done" /\ req[r].allowed /\ req[r].portal.ok) =>
            /\ req[r].status = 200
            /\ \E i \in SamplesOf(req[r].plugin_id) :
                  /\ downloads[i].count = req[r].portal.count
                  /\ downloads[i].timestamp = req[r].timestamp

\* C5: an update request that finds can_update false goes on to the 429 response
\* without a fetch, and its steps leave plugins, downloads and scrape_logs as they
\* are; a fetch happens only in a request that passed the throttle check.
ThrottleRejection ==
    [][\A r \in Requests :
        /\ (req[r].pc = "can_update" /\ ~can_update(req[r].plugin_id) /\ req'[r] # req[r])
              => /\ req'[r].pc = "get_last_fetched"
                 /\ ~req'[r].allowed
                 /\ req'[r].fetches = 0
                 /\ UNCHANGED <<plugins, downloads, scrape_logs>>
        /\ (req[r].pc = "get_last_fetched" /\ req'[r] # req[r])
              => /\ req'[r].pc = "done"
                 /\ req'[r].status = 429
                 /\ req'[r].last_fetched = get_last_fetched(req[r].plugin_id)
                 /\ req'[r].fetches = 0
                 /\ UNCHANGED <<plugins, downloads, scrape_logs>>
        /\ req'[r].fetches > req[r].fetches => req[r].allowed]_vars

\* A throttled request has been answered 429 while the store holds rows.
ThrottleRejectionWitness ==
    \E r \in Requests :
        /\ req[r].pc = "done"
        /\ req[r].status = 429
        /\ req[r].last_fetched # None
        /\ scrape_logs # <<>>

\* C7: two overlapping update requests for one plugin that both passed the
\* throttle check (and whose fetches would return a count) both end with HTTP 200
\* and both persist a sample, the two less than THROTTLE_HOURS apart.
ConcurrentUpdatesPersist ==
    \A r \in Requests, q \in Requests :
        ( /\ r # q
          /\ req[r].plugin_id = req[q].plugin_id
          /\ req[r].pc = "done" /\ req[q].pc = "done"
          /\ req[r].allowed /\ req[q].allowed
          /\ req[r].portal.ok /\ req[q].portal.ok )
        => /\ req[r].status = 200 /\ req[q].status = 200
           /\ \E i \in SamplesOf(req[r].plugin_id), j \in SamplesOf(req[r].plugin_id) :
                 /\ i # j
                 /\ downloads[i].timestamp = req[r].timestamp
                 /\ downloads[j].timestamp = req[q].timestamp
                 /\ SampleHours(i) - SampleHours(j) < THROTTLE_HOURS
                 /\ SampleHours(j) - SampleHours(i) < THROTTLE_HOURS

\* The entries of scrape_logs that belong to a plugin, and the instant one carries.
EntriesOf(plugin_id) == {i \in 1..Len(scrape_logs) : scrape_logs[i].plugin_id = plugin_id}
EntryHours(i) == fromisoformat(scrape_logs[i].timestamp)
\* Entry i and the entries of the plugin logged after it.
FromEntry(plugin_id, i) == {j \in EntriesOf(plugin_id) : EntryHours(j) >= EntryHours(i)}
\* The failures not preceded (looking back from the newest entry) by a success,
\* among the 10 most recent entries.
FailureRun(plugin_id) ==
    {i \in EntriesOf(plugin_id) :
        /\ Cardinality(FromEntry(plugin_id, i)) <= 10
        /\ \A j \in FromEntry(plugin_id, i) : ~scrape_logs[j].success}

IsPrefix(a, b) == Len(a) <= Len(b) /\ SubSeq(b, 1, Len(a)) = a

RecordsOn(date) == {k \in 1..Len(history) : DateOf(history[k].timestamp) = date}
HistoryDates == {DateOf(history[k].timestamp) : k \in 1..Len(history)}
\* generate_sparkline has returned a chart of the history.
Charted == sparkline.returned /\ sparkline.raised = "" /\ history # <<>>

\* C11: for a history in ascending timestamp order the daily series has exactly one
\* point per calendar date of the history, in ascending date order, and the value
\* of a point is the count of the latest sample of its date (the last one of that
\* date, none of the date has a greater timestamp), whether or not it is the
\* greatest count of the date.
DailySeriesLatestWins ==
    Charted =>
        LET daily_data == sparkline.daily_data
        IN  /\ Len(daily_data) = Cardinality(HistoryDates)
            /\ {daily_data[k][1] : k \in 1..Len(daily_data)} = HistoryDates
            /\ \A k \in 1..(Len(daily_data) - 1) : daily_data[k][1] < daily_data[k + 1][1]
            /\ \A k \in 1..Len(daily_data) :
                  \E j \in RecordsOn(daily_data[k][1]) :
                      /\ \A i \in RecordsOn(daily_data[k][1]) :
                            /\ i <= j
                            /\ TextLeq(history[i].timestamp, history[j].timestamp)
                      /\ daily_data[k][2] = history[j].count

\* A chart of a history in which a day's later sample holds a smaller count than
\* its earlier one, beside samples of another day.
DailySeriesWitness ==
    /\ Charted
    /\ Cardinality(HistoryDates) >= 2
    /\ \E i \in 1..Len(history), j \in 1..Len(history) :
          /\ i < j
          /\ DateOf(history[i].timestamp) = DateOf(history[j].timestamp)
          /\ TextLess(history[i].timestamp, history[j].timestamp)
          /\ history[j].count < history[i].count
          /\ \E k \in 1..Len(sparkline.daily_data) :
                sparkline.daily_data[k] = <<DateOf(history[j].timestamp), history[j].count>>

\* The coordinates generate_sparkline gives the k-th daily point.
ChartScale == Scale(sparkline.daily_data, sparkline.svg.width, sparkline.svg.height)
PointX(k) == date_to_x(ChartScale, sparkline.daily_data[k][1])
PointY(k) == value_to_y(ChartScale, sparkline.daily_data[k][2])
SamePoint(a, b) == FracEq(a[1], b[1]) /\ FracEq(a[2], b[2])
\* The pairs (k - 1, k) of consecutive daily points more than one day apart.
GapPairs ==
    {k \in 2..Len(sparkline.daily_data) :
        sparkline.daily_data[k][1] - sparkline.daily_data[k - 1][1] > 1}
\* The dashed strokes of the image that run between the x of point k - 1 and of point k.
DashedBetween(k) ==
    {i \in 1..Len(sparkline.svg.polylines) :
        /\ sparkline.svg.polylines[i].dasharray = "4,4"
        /\ FracEq(sparkline.svg.polylines[i].points[1][1], PointX(k - 1))
        /\ FracEq(sparkline.svg.polylines[i].points[Len(sparkline.svg.polylines[i].points)][1],
                  PointX(k))}
DashedStrokes ==
    {i \in 1..Len(sparkline.svg.polylines) : sparkline.svg.polylines[i].dasharray = "4,4"}

\* C12: for every pair of consecutive daily points more than one day apart the
\* image holds exactly one dashed stroke, of two points: the earlier point's (x, y)
\* and (the later point's x, the earlier point's y); for a pair one day apart it
\* holds none; the dashed strokes are as many as the pairs more than a day apart.
DashedSegmentPerGap ==
    Charted =>
        /\ \A k \in 2..Len(sparkline.daily_data) :
              IF k \in GapPairs
              THEN /\ Cardinality(DashedBetween(k)) = 1
                   /\ \A i \in DashedBetween(k) :
                         LET points == sparkline.svg.polylines[i].points
                         IN  /\ Len(points) = 2
                             /\ SamePoint(points[1], <<PointX(k - 1), PointY(k - 1)>>)
                             /\ SamePoint(points[2], <<PointX(k), PointY(k - 1)>>)
              ELSE DashedBetween(k) = {}
        /\ Cardinality(DashedStrokes) = Cardinality(GapPairs)
        /\ Len(sparkline.dotted_segments) = Cardinality(GapPairs)

\* A chart with a pair one day apart and a pair further apart whose values differ.
DashedSegmentWitness ==
    /\ Charted
    /\ Cardinality(GapPairs) = 1
    /\ Len(sparkline.daily_data) = 3
    /\ \E k \in GapPairs :
          /\ sparkline.daily_data[k][2] # sparkline.daily_data[k - 1][2]
          /\ ~FracEq(PointY(k), PointY(k - 1))
    /\ Cardinality(DashedStrokes) = 1

SolidStrokes ==
    {i \in 1..Len(sparkline.svg.polylines) : sparkline.svg.polylines[i].dasharray = ""}
\* The daily points and counts of the history [(day1, 10), (day3, 10), (day4, 15)].
IsGapExample == sparkline.daily_data = <<<<1, 10>>, <<3, 10>>, <<4, 15>>>>
\* Daily point k has a gap right after it, and is the first point or has a gap
\* right before it as well.
IsolatedBeforeGap(k) ==
    /\ k + 1 \in GapPairs
    /\ k = 1 \/ k \in GapPairs

\* C13: for the history [(day1, 10), (day3, 10), (day4, 15)] the image holds exactly
\* one dashed stroke and exactly one solid stroke, the solid stroke being the run
\* [(day3, 10), (day4, 15)]; in general no solid stroke is made of a daily point
\* that is isolated between gaps or before the first gap.
OneSolidStrokePerRun ==
    Charted =>
        /\ IsGapExample =>
              /\ Cardinality(DashedStrokes) = 1
              /\ Cardinality(SolidStrokes) = 1
              /\ \A i \in SolidStrokes :
                    LET points == sparkline.svg.polylines[i].points
                    IN  /\ Len(points) = 2
                        /\ SamePoint(points[1], <<PointX(2), PointY(2)>>)
                        /\ SamePoint(points[2], <<PointX(3), PointY(3)>>)
        /\ \A k \in 1..Len(sparkline.daily_data) :
              IsolatedBeforeGap(k) =>
                  \A i \in SolidStrokes :
                      ~SamePoint(sparkline.svg.polylines[i].points[1],
                                 <<PointX(k), PointY(k)>>)

RECURSIVE Flatten(_)
Flatten(seqs) == IF seqs = <<>> THEN <<>> ELSE Head(seqs) \o Flatten(Tail(seqs))
\* The point drawn for the k-th daily point: every daily point is on one solid segment.
DrawnPoints == Flatten(sparkline.solid_segments)
DailyValues == {sparkline.daily_data[k][2] : k \in 1..Len(sparkline.daily_data)}

\* C20: when the daily values are not all equal, the y of every daily point lies in
\* [0.1 * height, 0.9 * height], the least value is drawn at 0.9 * height, the
\* greatest at 0.1 * height, and a greater value is never drawn at a greater y; when
\* they are all equal (a single point too) every y is height / 2.
YCoordinates ==
    Charted =>
        LET h == sparkline.svg.height
            n == Len(sparkline.daily_data)
            value(k) == sparkline.daily_data[k][2]
            y(k) == DrawnPoints[k][2]
        IN  /\ Len(DrawnPoints) = n
            /\ IF Cardinality(DailyValues) > 1
               THEN /\ \A k \in 1..n :
                          /\ FracLeq(Frac(h, 10), y(k))
                          /\ FracLeq(y(k), Frac(9 * h, 10))
                          /\ (\A j \in 1..n : value(k) <= value(j)) => FracEq(y(k), Frac(9 * h, 10))
                          /\ (\A j \in 1..n : value(j) <= value(k)) => FracEq(y(k), Frac(h, 10))
                    /\ \A j \in 1..n, k \in 1..n : value(j) > value(k) => FracLeq(y(j), y(k))
               ELSE \A k \in 1..n : FracEq(y(k), Frac(h, 2))

\* A chart of three different daily values at a height given by the caller: the
\* middle value is drawn strictly between the two ends.
YCoordinatesWitness ==
    /\ Charted
    /\ height # 0
    /\ Cardinality(DailyValues) = 3
    /\ \E k \in 1..Len(DrawnPoints) :
          /\ FracLess(Frac(sparkline.svg.height, 10), DrawnPoints[k][2])
          /\ FracLess(DrawnPoints[k][2], Frac(9 * sparkline.svg.height, 10))

\* text is "<digits>.<digit><suffix>" and names the tenth nearest to n / (10 * unit)
\* (either neighbour when n lies halfway between two tenths).
IsRoundedWithSuffix(text, n, unit, suffix) ==
    /\ Len(text) >= 4
    /\ text[Len(text)] = suffix
    /\ text[Len(text) - 2] = "."
    /\ IsDigits(SubSeq(text, 1, Len(text) - 3))
    /\ IsDigits(<<text[Len(text) - 1]>>)
    /\ Len(text) > 4 => text[1] # "0"
    /\ LET tenths == 10 * DecimalValue(SubSeq(text, 1, Len(text) - 3))
                        + DigitValue(text[Len(text) - 1])
       IN  /\ 2 * (n - tenths * unit) <= unit
           /\ 2 * (tenths * unit - n) <= unit

\* C18: format_number(count) of a count >= 0 is the plain decimal string below 1000,
\* count / 1000 rounded to one decimal and 'k' from 1000 up to 999999,
\* count / 1000000 rounded to one decimal and 'M' from 1000000 on; 999 gives "999",
\* 1000 gives "1.0k" and 1500000 gives "1.5M".
FormatNumberContract ==
    formatted # <<>> =>
        /\ num < 1000 =>
              /\ IsDigits(formatted)
              /\ DecimalValue(formatted) = num
              /\ Len(formatted) > 1 => formatted[1] # "0"
        /\ (1000 <= num /\ num < 1000000) => IsRoundedWithSuffix(formatted, num, 100, "k")
        /\ num >= 1000000 => IsRoundedWithSuffix(formatted, num, 100000, "M")
        /\ num = 999 => formatted = <<"9", "9", "9">>
        /\ num = 1000 => formatted = <<"1", ".", "0", "k">>
        /\ num = 1500000 => formatted = <<"1", ".", "5", "M">>

\* The greatest count below 1000000 has been formatted: rounding carries it to
\* "1000.0k", still with the suffix of its own range.
FormatNumberWitness ==
    /\ num = 999999
    /\ formatted = <<"1", "0", "0", "0", ".", "0", "k">>

\* C19: should_retry_scrape is false whenever the plugin's most recent logged
\* attempt, a success or a failure, is less than 24 hours old.
RetryWaitsAfterAnyAttempt ==
    \A p \in PluginIds :
        \A i \in EntriesOf(p) :
            ( /\ \A j \in EntriesOf(p) : EntryHours(j) <= EntryHours(i)
              /\ now - EntryHours(i) < 24 )
            => ~should_retry_scrape(p)

\* A step answers a GET request.
AnswersSparkline == response = NoResponse /\ response'.endpoint = "sparkline"
AnswersApi == response = NoResponse /\ response'.endpoint = "api"
\* The samples of a plugin no older than the lookback of `days` days.
InWindow(plugin_id, days) == {i \in SamplesOf(plugin_id) : SampleHours(i) >= now - 24 * days}
\* The image with the text 'No data' at the configured size.
Placeholder ==
    [width |-> 200, height |-> 50, text |-> "No data", polygon |-> <<>>, polylines |-> <<>>]

\* C14: for a plugin with at least one sample inside the lookback window (and no
\* database error) GET /sparkline answers 200 with the chart generate_sparkline
\* draws from those samples, not with the 'No data' placeholder.
SparklineRendersHistory ==
    [][( /\ AnswersSparkline
         /\ ~response'.raised
         /\ InWindow(response'.plugin_id, response'.days) # {} )
       => /\ response'.status = 200
          /\ response'.body # Placeholder
          /\ response'.body =
                generate_sparkline(
                    get_download_history(response'.plugin_id, response'.days), 0, 0).svg]_vars

\* C15: GET /sparkline always answers with a non-empty SVG body of the configured
\* width and height: the 'No data' placeholder with 200 when no sample lies in the
\* window, the same placeholder with 500 when the database call or the rendering
\* raises; no answer has an empty body, none has another status.
SparklineAlwaysSvg ==
    [][AnswersSparkline =>
        /\ response'.body # <<>>
        /\ response'.mimetype = "image/svg+xml"
        /\ response'.body.width = 200
        /\ response'.body.height = 50
        /\ response'.body.text = "No data" \/ response'.body.polygon # <<>>
        /\ response'.status \in {200, 500}
        /\ response'.raised => response'.status = 500
        /\ response'.status = 500 => response'.body = Placeholder
        /\ (~response'.raised /\ InWindow(response'.plugin_id, response'.days) = {})
              => /\ response'.status = 200
                 /\ response'.body = Placeholder]_vars

\* The database call of a GET /sparkline raised while the plugin had a sample in
\* the window: the answer is 500 with the placeholder.
SparklineErrorWitness ==
    /\ response.endpoint = "sparkline"
    /\ response.raised
    /\ response.status = 500
    /\ response.body = Placeholder
    /\ InWindow(response.plugin_id, response.days) # {}

\* The texts of the days parameter that int() accepts, with their values.
IntegerTexts ==
    {<<<<"0">>, 0>>, <<<<"-", "5">>, -5>>, <<<<"1">>, 1>>, <<<<"2">>, 2>>,
     <<<<"3", "6", "5">>, 365>>, <<<<"3", "6", "6">>, 366>>}

\* C16: whatever the days parameter (absent, zero, negative, above 365, no integer)
\* the lookback GET /sparkline hands to the history query is an integer in [1, 365]:
\* 30 when the parameter is absent or no integer, else the value clamped to [1, 365].
DaysClamped ==
    response.endpoint = "sparkline" =>
        /\ response.days \in 1..365
        /\ IF "days" \in DOMAIN response.args
              /\ \E e \in IntegerTexts : e[1] = response.args.days
           THEN \A e \in IntegerTexts :
                   e[1] = response.args.days =>
                       /\ e[2] < 1 => response.days = 1
                       /\ e[2] > 365 => response.days = 365
                       /\ (1 <= e[2] /\ e[2] <= 365) => response.days = e[2]
           ELSE response.days = 30

\* A negative days parameter has been answered with a lookback of one day.
DaysClampedWitness ==
    /\ response.endpoint = "sparkline"
    /\ response.args = [days |-> <<"-", "5">>]
    /\ response.days = 1
    /\ response.status = 200

\* C17: GET /api always answers with a payload of schemaVersion 1 and the fixed
\* label: 200, 'no data', 'lightgrey' when the plugin has no sample; 200, the
\* formatted count of a sample of the greatest timestamp and the badge color
\* without '#' when it has one; 500, 'error', 'red' when the read raises.
BadgePayload ==
    [][AnswersApi =>
        /\ response'.body # <<>>
        /\ response'.body.schemaVersion = 1
        /\ response'.body.label = "downloads"
        /\ response'.raised =>
              /\ response'.status = 500
              /\ response'.body.message = <<"e", "r", "r", "o", "r">>
              /\ response'.body.color = <<"r", "e", "d">>
        /\ (~response'.raised /\ SamplesOf(response'.plugin_id) = {}) =>
              /\ response'.status = 200
              /\ response'.body.message = <<"n", "o", " ", "d", "a", "t", "a">>
              /\ response'.body.color = <<"l", "i", "g", "h", "t", "g", "r", "e", "y">>
        /\ (~response'.raised /\ SamplesOf(response'.plugin_id) # {}) =>
              /\ response'.status = 200
              /\ response'.body.color = <<"0", "0", "7", "e", "c", "6">>
              /\ \E i \in SamplesOf(response'.plugin_id) :
                    /\ \A j \in SamplesOf(response'.plugin_id) :
                          SampleHours(j) <= SampleHours(i)
                    /\ response'.body.message = format_number(downloads[i].count)]_vars

\* The badge shows "1.5k", the count of the most recent sample, while the row
\* inserted last for the plugin is an older sample with another count.
BadgePayloadWitness ==
    /\ response.endpoint = "api"
    /\ response.status = 200
    /\ response.body.message = <<"1", ".", "5", "k">>
    /\ \E i \in SamplesOf(response.plugin_id) :
          /\ \A j \in SamplesOf(response.plugin_id) : j <= i
          /\ downloads[i].count = 999
          /\ \E j \in SamplesOf(response.plugin_id) :
                /\ SampleHours(j) > SampleHours(i)
                /\ downloads[j].count = 1500

\* C21: when the daily series spans more than one date every x lies in [0, width],
\* the first date is drawn at 0, the last at width, and x grows strictly with the
\* date; a series of a single date is drawn at width / 2.  Along the polygon of the
\* filled area, from (0, height) to (width, height), x never decreases.
XCoordinates ==
    Charted =>
        LET w == sparkline.svg.width
            h == sparkline.svg.height
            n == Len(sparkline.daily_data)
            x(k) == DrawnPoints[k][1]
            polygon == sparkline.svg.polygon
        IN  /\ Len(DrawnPoints) = n
            /\ IF n > 1
               THEN /\ \A k \in 1..n : FracLeq(Frac(0, 1), x(k)) /\ FracLeq(x(k), Frac(w, 1))
                    /\ FracEq(x(1), Frac(0, 1))
                    /\ FracEq(x(n), Frac(w, 1))
                    /\ \A j \in 1..n, k \in 1..n :
                          sparkline.daily_data[j][1] < sparkline.daily_data[k][1]
                              => FracLess(x(j), x(k))
               ELSE FracEq(x(1), Frac(w, 2))
            /\ Len(polygon) >= 3
            /\ SamePoint(polygon[1], <<Frac(0, 1), Frac(h, 1)>>)
            /\ SamePoint(polygon[Len(polygon)], <<Frac(w, 1), Frac(h, 1)>>)
            /\ \A k \in 1..(Len(polygon) - 1) : FracLeq(polygon[k][1], polygon[k + 1][1])

\* A chart at a width given by the caller, of three dates unevenly spaced with a
\* gap: the middle point lies strictly inside, off the centre, and the polygon
\* passes the step point of the gap.
XCoordinatesWitness ==
    /\ Charted
    /\ width # 0
    /\ Len(sparkline.daily_data) = 3
    /\ GapPairs # {}
    /\ Len(sparkline.svg.polygon) = 6
    /\ FracLess(Frac(0, 1), DrawnPoints[2][1])
    /\ FracLess(DrawnPoints[2][1], Frac(sparkline.svg.width, 1))
    /\ ~FracEq(DrawnPoints[2][1], Frac(sparkline.svg.width, 2))

\* A read has just been answered: a GET request got its response, or a query of
\* database.py returned (or raised) to its caller.
ReadAnswered ==
    \/ response.endpoint = "" /\ response'.endpoint \in {"api", "sparkline", "health"}
    \/ returned.function = "" /\ returned'.function \in ReadFunctions

\* C23: the read operations GET /api, GET /sparkline, GET /health, can_update,
\* get_last_fetched, get_download_history and should_retry_scrape leave the plugin
\* registry, the sample history and the scrape log exactly as they were, whatever
\* they answer and also when they fail (a database call raising, or the renderer
\* raising TypeError).
ReadsLeaveStoreUnchanged ==
    [][ReadAnswered => UNCHANGED <<plugins, downloads, scrape_logs>>]_vars

\* A GET /sparkline answered 500 and a query that raised, each over a store that holds
\* a sample and a log entry of the plugin read.
ReadsWitness ==
    /\ downloads # <<>>
    /\ scrape_logs # <<>>
    /\ \/ /\ response.endpoint = "sparkline"
          /\ response.plugin_id = "p1"
          /\ response.status = 500
          /\ ~response.raised
       \/ /\ returned.function = "should_retry_scrape"
          /\ returned.plugin_id = "p1"
          /\ returned.raised

\* The plugin of the operation in progress is registered, and its sample is the one
\* row appended to the history the operation found.
PluginVisible == \E row \in plugins : row.id = conn.plugin_id
SampleVisible ==
    downloads = Append(conn.before.downloads,
                       [plugin_id |-> conn.plugin_id, timestamp |-> conn.timestamp,
                        count |-> conn.count])

\* C24: every database operation runs in a scope that commits when its body has
\* completed, rolls back when its body (or the commit) raises, and closes the
\* connection in both cases.  Until the commit, and after a rollback, the stored
\* tables are what the operation found; no connection is open once the operation
\* has ended; and add_download_record is all-or-nothing: in every state either both
\* its plugin-registry insert and its sample insert are visible, or the registry
\* and the history are as it found them.
DbScope ==
    /\ conn.pc \in {"none", "done"} => ~conn.open
    /\ conn.pc \in {"body", "except", "finally"} => conn.open
    /\ conn.pc \in {"finally", "done"} => (conn.committed <=> ~conn.raised)
    /\ conn.pc \in {"body", "except"} => ~conn.committed /\ ~conn.raised
    /\ conn.pc # "none" /\ ~conn.committed => Stored = conn.before
    /\ conn.function = "add_download_record" =>
          /\ scrape_logs = conn.before.scrape_logs
          /\ IF conn.committed
             THEN PluginVisible /\ SampleVisible
             ELSE plugins = conn.before.plugins /\ downloads = conn.before.downloads
    /\ conn.committed /\ conn.function = "add_plugin_if_not_exists" =>
          /\ PluginVisible
          /\ downloads = conn.before.downloads
          /\ scrape_logs = conn.before.scrape_logs
    /\ conn.committed /\ conn.function = "log_scrape_error" =>
          /\ plugins = conn.before.plugins
          /\ downloads = conn.before.downloads
          /\ Len(scrape_logs) = Len(conn.before.scrape_logs) + 1
          /\ scrape_logs[Len(scrape_logs)].plugin_id = conn.plugin_id
          /\ ~scrape_logs[Len(scrape_logs)].success
    /\ conn.committed /\ conn.function = "get_last_fetched" => Stored = conn.before

\* add_download_record for a plugin not registered yet has raised at its second
\* statement, after the registry insert: the scope has rolled back and closed the
\* connection, the plugin is not registered, and the sample an earlier operation
\* committed is still there.
DbScopeWitness ==
    /\ conn.pc = "done"
    /\ conn.function = "add_download_record"
    /\ conn.raised
    /\ conn.executed = 1
    /\ ~conn.open
    /\ ~PluginVisible
    /\ downloads # <<>>

============================================================================
